---- MODULE Spec2Model ----
(***************************************************************************)
(* The TLV codec of the asn1-parser crate: the cursor-based Reader and     *)
(* Writer, the definite-length codec, the OCTET STRING and UTF8String      *)
(* leaves and the explicit-tag construct, as pure operators over byte      *)
(* sequences, driven by a small state machine that picks an input buffer,  *)
(* decodes it through both entry points, re-encodes the result and decodes *)
(* truncated prefixes.                                                     *)
(*                                                                         *)
(* Positions are 0-based as in the Rust code; a range a..b is the pair     *)
(* <<a, b>> (end exclusive).  TLA+ sequences are 1-based, so the byte at   *)
(* position p of a buffer s is s[p + 1].                                   *)
(***************************************************************************)
EXTENDS Integers, Sequences, FiniteSets, TLC

VARIABLES
    pc,         \* the step the run is at
    buf,        \* the input buffer
    start_id,   \* the id counter of the reader the decode starts from
    res,        \* the result of Asn1Type::decode_asn1 on the buffer
    oct_asn1,   \* the result of OctetString::decode_asn1 on the buffer
    oct_value,  \* the result of OctetString::decode on the buffer
    val,        \* the value handed to the encoder
    enc,        \* the result of encode_buff
    cut,        \* the length of the prefix decoded last
    res_cut,    \* the result of decoding that prefix
    n,          \* the length handed to the length codec
    len_w,      \* the result of write_len(n)
    len_r       \* the result of read_len on what write_len wrote

vars == <<pc, buf, start_id, res, oct_asn1, oct_value, val, enc, cut, res_cut, n, len_w, len_r>>

----------------------------------------------------------------------------
(* Bounds of the model.                                                    *)

\* Every byte sequence of at most MaxLen bytes over Alphabet is an input.
MaxLen == 5

\* The reader's id counter starts anywhere in 0..MaxStartId.
MaxStartId == 1

\* The length codec is exercised on every n in 0..MaxSmallLen (and on the
\* boundary values of BigLens).
MaxSmallLen == 300

\* Explicit tags built for encoding hold at most MaxChildren children.
MaxChildren == 2

----------------------------------------------------------------------------
(* Results: Rust's Result<T, Error> together with the reader (or writer)   *)
(* the call leaves behind, since every operation takes it by &mut.         *)

NoNode == [kind |-> "none"]

Ok(r, v) == [ok |-> TRUE, err |-> "", r |-> r, v |-> v]

Err(r, e) == [ok |-> FALSE, err |-> e, r |-> r, v |-> NoNode]

\* The ? operator: on Err return it, on Ok go on with the result.
Try(x, then(_)) == IF x.ok THEN then(x) ELSE Err(x.r, x.err)

\* let v = ...; go on with v.
Let(v, then(_)) == then(v)

\* The error kinds of the crate (spec section 7).
DataUnderrun == "data-underrun"
WrongTag == "wrong-tag"
UnknownTag == "unknown-tag"
LengthError == "length-error"
ContentError == "content-error"
BufferTooSmall == "buffer-too-small"

----------------------------------------------------------------------------
(* Reader: a cursor over a borrowed buffer.                                *)

Reader_new(data) == [inner |-> data, position |-> 0, offset |-> 0, next_id |-> 0]

\* next_id(&mut self): hands out the counter's value and advances it.
next_id(r) == [id |-> r.next_id, r |-> [r EXCEPT !.next_id = @ + 1]]

set_next_id(r, v) == [r EXCEPT !.next_id = v]

set_offset(r, o) == [r EXCEPT !.offset = o]

position(r) == r.position

full_offset(r) == r.offset + r.position

empty(r) == r.position >= Len(r.inner)

read(r, k) ==
    IF r.position + k > Len(r.inner)
    THEN Err(r, DataUnderrun)
    ELSE Ok([r EXCEPT !.position = @ + k],
            SubSeq(r.inner, r.position + 1, r.position + k))

read_byte(r) ==
    IF r.position >= Len(r.inner)
    THEN Err(r, DataUnderrun)
    ELSE Ok([r EXCEPT !.position = @ + 1], r.inner[r.position + 1])

peek_byte(r) ==
    IF r.position >= Len(r.inner)
    THEN Err(r, DataUnderrun)
    ELSE Ok(r, r.inner[r.position + 1])

\* read_data: the payload slice and its absolute range.
read_data(r, len) ==
    Try(read(r, len), LAMBDA d :
        Ok(d.r, [data |-> d.v, range |-> <<full_offset(r), full_offset(d.r)>>]))

\* data_in_range(start..end): the raw bytes of a node.  The decoders pass the
\* reader's local position before the tag as start and the absolute payload
\* end as end; the slice is taken from the reader's own buffer.
data_in_range(r, start, end) ==
    IF start <= end - r.offset /\ end - r.offset <= Len(r.inner)
    THEN Ok(r, SubSeq(r.inner, start + 1, end - r.offset))
    ELSE Err(r, DataUnderrun)

\* check_tag!(in: reader): reads the tag byte and compares it.
\* tags are the tag bytes Self::compare_tags accepts.
check_tag(r, tags) ==
    Try(read_byte(r), LAMBDA t :
        IF t.v \in tags THEN Ok(t.r, t.v) ELSE Err(t.r, WrongTag))

----------------------------------------------------------------------------
(* Writer: a cursor over a caller-owned buffer of fixed size.  A byte not  *)
(* yet written is Unwritten.                                               *)

Unwritten == 0 - 1

Writer_new(size) == [buf |-> [i \in 1..size |-> Unwritten], position |-> 0]

write_byte(w, b) ==
    IF w.position >= Len(w.buf)
    THEN Err(w, BufferTooSmall)
    ELSE Ok([w EXCEPT !.buf[w.position + 1] = b, !.position = @ + 1], NoNode)

write_slice(w, bytes) ==
    IF w.position + Len(bytes) > Len(w.buf)
    THEN Err(w, BufferTooSmall)
    ELSE Ok([w EXCEPT
               !.buf = [i \in 1..Len(w.buf) |->
                          IF i > w.position /\ i <= w.position + Len(bytes)
                          THEN bytes[i - w.position] ELSE w.buf[i]],
               !.position = @ + Len(bytes)], NoNode)

----------------------------------------------------------------------------
(* Length codec: BER definite lengths.                                     *)

\* The octets of a usize.
USIZE_LEN == 4

RECURSIVE be_bytes(_)
\* Minimal big-endian octets of v > 0.
be_bytes(v) == IF v = 0 THEN <<>> ELSE Append(be_bytes(v \div 256), v % 256)

RECURSIVE be_value(_)
be_value(octets) ==
    IF octets = <<>> THEN 0
    ELSE be_value(SubSeq(octets, 1, Len(octets) - 1)) * 256 + octets[Len(octets)]

RECURSIVE strip_zeros(_)
strip_zeros(octets) ==
    IF octets # <<>> /\ octets[1] = 0 THEN strip_zeros(Tail(octets)) ELSE octets

\* The octets after a long-form introducer.
read_long_len(r, start, count) ==
    IF count = 0 THEN Err(r, LengthError)
    ELSE Try(read(r, count), LAMBDA o :
             IF Len(strip_zeros(o.v)) > USIZE_LEN THEN Err(o.r, LengthError)
             ELSE Ok(o.r, [len |-> be_value(o.v), range |-> <<start, full_offset(o.r)>>]))

read_len(r) ==
    Try(read_byte(r), LAMBDA b :
        IF b.v < 128
        THEN Ok(b.r, [len |-> b.v, range |-> <<full_offset(r), full_offset(b.r)>>])
        ELSE read_long_len(b.r, full_offset(r), b.v % 128))

write_len(v, w) ==
    IF v < 128 THEN write_byte(w, v)
    ELSE Let(be_bytes(v), LAMBDA octets :
             Try(write_byte(w, 128 + Len(octets)), LAMBDA i : write_slice(i.r, octets)))

\* A size that knows no length field beyond two octets.
len_size_two(v) == IF v < 128 THEN 1 ELSE 2

len_size(v) ==
    IF v < 128 THEN 1
    ELSE IF v < 256 THEN 2
    ELSE IF v < 65536 THEN 3
    ELSE IF v < 16777216 THEN 4
    ELSE 5

----------------------------------------------------------------------------
(* core::str::from_utf8: well-formed UTF-8 (Unicode table 3-7).            *)

cont(b) == b >= 128 /\ b <= 191

\* The length of the sequence a first byte announces; 0 for a byte that
\* starts none (a continuation byte, 192, 193 and 245..255).
utf8_width(b) ==
    IF b < 128 THEN 1
    ELSE IF b >= 194 /\ b <= 223 THEN 2
    ELSE IF b >= 224 /\ b <= 239 THEN 3
    ELSE IF b >= 240 /\ b <= 244 THEN 4
    ELSE 0

\* The sequence starting at s[i] is complete and well formed.
utf8_seq_ok(s, i) ==
    LET w == utf8_width(s[i])
    IN  /\ i + w - 1 <= Len(s)
        /\ \A k \in 1..(w - 1) : cont(s[i + k])
        /\ (s[i] = 224 => s[i + 1] >= 160)
        /\ (s[i] = 237 => s[i + 1] <= 159)
        /\ (s[i] = 240 => s[i + 1] >= 144)
        /\ (s[i] = 244 => s[i + 1] <= 143)

\* The continuation byte s[j] belongs to a sequence started before it.
utf8_cont_ok(s, j) ==
    \E k \in 1..3 :
        /\ j - k >= 1
        /\ utf8_width(s[j - k]) > k
        /\ \A m \in 1..(k - 1) : cont(s[j - m])

\* Every byte starts a well-formed sequence or continues one.
from_utf8(data) ==
    \A i \in 1..Len(data) :
        IF cont(data[i]) THEN utf8_cont_ok(data, i)
        ELSE utf8_width(data[i]) > 0 /\ utf8_seq_ok(data, i)

----------------------------------------------------------------------------
(* Tags.                                                                   *)

OctetString_TAG == 4

Utf8String_TAG == 12

OctetString_compare_tags(tag) == OctetString_TAG = tag

Utf8String_compare_tags(tag) == Utf8String_TAG = tag

\* Tag::is_context_specific: class bits 10.  Tag::is_constructed: bit 0x20.
is_context_specific(tag) == (tag \div 64) = 2

is_constructed(tag) == (tag \div 32) % 2 = 1

ExplicitTag_compare_tags(tag) == is_context_specific(tag) /\ is_constructed(tag)

\* The tag bytes each type claims.
OctetString_tags == {t \in 0..255 : OctetString_compare_tags(t)}

Utf8String_tags == {t \in 0..255 : Utf8String_compare_tags(t)}

ExplicitTag_tags == {t \in 0..255 : ExplicitTag_compare_tags(t)}

----------------------------------------------------------------------------
(* Decoded values.  A value (the Asn1Type variant) holds its id, its       *)
(* bytes and its nested nodes; a node (Asn1) adds the raw entity data.     *)
(* Option<Asn1> is a sequence of at most one node.                         *)

OctetString(id, octets, inner) ==
    [kind |-> "octet", id |-> id, tag_byte |-> OctetString_TAG,
     octets |-> octets, inner |-> inner]

Utf8String(id, string) ==
    [kind |-> "utf8", id |-> id, tag_byte |-> Utf8String_TAG,
     octets |-> string, inner |-> <<>>]

RawAsn1EntityData(raw_data, tag, length, data) ==
    [raw_data |-> raw_data, tag |-> tag, length |-> length, data |-> data]

Asn1(raw_data, asn1_type) == [raw_data |-> raw_data, asn1_type |-> asn1_type]

----------------------------------------------------------------------------
(* UTF8String.                                                             *)

Utf8String_decode(reader) ==
    Try(check_tag(reader, Utf8String_tags), LAMBDA t :
    Try(read_len(t.r), LAMBDA l :
    Try(read(l.r, l.v.len), LAMBDA d :
    Let(next_id(d.r), LAMBDA i :
        IF from_utf8(d.v) THEN Ok(i.r, Utf8String(i.id, d.v))
        ELSE Err(i.r, ContentError)))))

Utf8String_decode_asn1(reader) ==
    Let(full_offset(reader), LAMBDA tag_position :
    Let(position(reader), LAMBDA data_start :
    Try(check_tag(reader, Utf8String_tags), LAMBDA t :
    Try(read_len(t.r), LAMBDA l :
    Try(read_data(l.r, l.v.len), LAMBDA d :
    Try(data_in_range(d.r, data_start, d.v.range[2]), LAMBDA raw :
    Let(next_id(d.r), LAMBDA i :
        IF from_utf8(d.v.data)
        THEN Ok(i.r, Asn1(RawAsn1EntityData(raw.v, tag_position, l.v.range, d.v.range),
                          Utf8String(i.id, d.v.data)))
        ELSE Err(i.r, ContentError))))))))

----------------------------------------------------------------------------
(* The tree decoder.  OCTET STRING, the explicit tag and the union         *)
(* dispatch call each other.                                               *)

RECURSIVE Asn1Type_decode_asn1(_)
RECURSIVE OctetString_decode_asn1(_)
RECURSIVE ExplicitTag_decode_asn1(_)
RECURSIVE ExplicitTag_decode_loop(_, _, _)

\* Asn1::decode, the child decoder of the explicit tag.
Asn1_decode(reader) == Asn1Type_decode_asn1(reader)

(* OCTET STRING *)

\* A child reader that starts counting from 0 again.
OctetString_inner_reader_fresh(reader, data) ==
    [reader |-> next_id(reader).r, inner_reader |-> Reader_new(data)]

\* decode: the child reader over the payload inherits the id counter.
\* Yields the parent (its counter advanced by next_id) and the child.
OctetString_inner_reader(reader, data) ==
    Let(next_id(reader), LAMBDA i :
        [reader |-> i.r, inner_reader |-> set_next_id(Reader_new(data), i.id)])

\* decode_asn1: the child reader inherits the id counter and takes the
\* parent's full offset, read after the payload was consumed.
OctetString_inner_reader_asn1(reader, data) ==
    Let(OctetString_inner_reader(reader, data), LAMBDA base :
        [reader |-> base.reader,
         inner_reader |-> set_offset(base.inner_reader, full_offset(base.reader))])

\* A nested attempt that never finds a tree.
OctetString_nested_absent(inner_reader) == [inner |-> <<>>, inner_reader |-> inner_reader]

\* Asn1Type::decode_asn1(&mut inner_reader).ok(): a failure leaves None.
OctetString_nested(inner_reader) ==
    Let(Asn1Type_decode_asn1(inner_reader), LAMBDA a :
        [inner |-> IF a.ok THEN <<a.v>> ELSE <<>>, inner_reader |-> a.r])

\* The child's counter is not fed back.
OctetString_feed_back_dropped(reader, inner_reader) == reader

\* reader.set_next_id(inner_reader.next_id())
OctetString_feed_back(reader, inner_reader) ==
    set_next_id(reader, next_id(inner_reader).id)

\* A payload read that takes what is left when the buffer is too short.
OctetString_read_payload_lenient(reader, len) ==
    LET left == Len(reader.inner) - reader.position
    IN  read_data(reader, IF len > left THEN left ELSE len)

\* read_data(reader, len)?
OctetString_read_payload(reader, len) == read_data(reader, len)

OctetString_decode(reader) ==
    Try(check_tag(reader, OctetString_tags), LAMBDA t :
    Try(read_len(t.r), LAMBDA l :
    Try(read(l.r, l.v.len), LAMBDA d :
    Let(OctetString_inner_reader(d.r, d.v), LAMBDA rs :
    Let(OctetString_nested(rs.inner_reader), LAMBDA nested :
    Let(OctetString_feed_back(rs.reader, nested.inner_reader), LAMBDA back :
    Let(next_id(back), LAMBDA i :
        Ok(i.r, OctetString(i.id, d.v, nested.inner)))))))))

OctetString_decode_asn1(reader) ==
    Let(full_offset(reader), LAMBDA tag_position :
    Let(position(reader), LAMBDA data_start :
    Try(check_tag(reader, OctetString_tags), LAMBDA t :
    Try(read_len(t.r), LAMBDA l :
    Try(OctetString_read_payload(l.r, l.v.len), LAMBDA d :
    Let(OctetString_inner_reader_asn1(d.r, d.v.data), LAMBDA rs :
    Let(OctetString_nested(rs.inner_reader), LAMBDA nested :
    Let(OctetString_feed_back(rs.reader, nested.inner_reader), LAMBDA back :
    Try(data_in_range(back, data_start, d.v.range[2]), LAMBDA raw :
    Let(next_id(back), LAMBDA i :
        Ok(i.r, Asn1(RawAsn1EntityData(raw.v, tag_position, l.v.range, d.v.range),
                     OctetString(i.id, d.v.data, nested.inner)))))))))))))

(* Explicit tag *)

ExplicitTag(id, tag, inner) ==
    [kind |-> "explicit", id |-> id, tag_byte |-> tag, octets |-> <<>>, inner |-> inner]

\* ExplicitTag::new: the tag number with the context-specific and
\* constructed bits.
ExplicitTag_new(tag, inner) == ExplicitTag(0, (tag % 32) + 160, inner)

\* A loop that stops at the first child that fails and keeps the rest.
ExplicitTag_decode_loop_partial(tag, reader, inner) ==
    IF empty(reader) THEN Ok(reader, [tag |-> tag, inner |-> inner])
    ELSE Let(Asn1_decode(reader), LAMBDA c :
             IF ~c.ok THEN Ok(c.r, [tag |-> tag, inner |-> inner])
             ELSE ExplicitTag_decode_loop(tag, c.r, Append(inner, c.v)))

\* while !reader.empty() { inner.push(Asn1::decode(reader)?); }
ExplicitTag_decode_loop(tag, reader, inner) ==
    IF empty(reader) THEN Ok(reader, [tag |-> tag, inner |-> inner])
    ELSE Try(Asn1_decode(reader), LAMBDA c :
             ExplicitTag_decode_loop(tag, c.r, Append(inner, c.v)))

ExplicitTag_decode(tag, reader) == ExplicitTag_decode_loop(tag, reader, <<>>)

\* The child reader of an explicit tag: over the payload, with the parent's
\* id counter and the payload's absolute start.
ExplicitTag_inner_reader(reader, d) ==
    set_offset(set_next_id(Reader_new(d.data), reader.next_id), d.range[1])

\* The tree-node entry point of the explicit tag: tag, length, then the
\* children from the child reader, whose counter is fed back.
ExplicitTag_decode_asn1(reader) ==
    Let(full_offset(reader), LAMBDA tag_position :
    Let(position(reader), LAMBDA data_start :
    Try(check_tag(reader, ExplicitTag_tags), LAMBDA t :
    Try(read_len(t.r), LAMBDA l :
    Try(read_data(l.r, l.v.len), LAMBDA d :
    Let(ExplicitTag_decode(t.v, ExplicitTag_inner_reader(d.r, d.v)), LAMBDA e :
    Let(set_next_id(d.r, e.r.next_id), LAMBDA back :
        IF ~e.ok THEN Err(back, e.err)
        ELSE Try(data_in_range(back, data_start, d.v.range[2]), LAMBDA raw :
             Let(next_id(back), LAMBDA i :
                 Ok(i.r, Asn1(RawAsn1EntityData(raw.v, tag_position, l.v.range, d.v.range),
                              ExplicitTag(i.id, e.v.tag, e.v.inner))))))))))))

(* The union: the first type that claims the tag decodes the node. *)

Asn1Type_decode_asn1(reader) ==
    Try(peek_byte(reader), LAMBDA p :
        IF OctetString_compare_tags(p.v) THEN OctetString_decode_asn1(reader)
        ELSE IF Utf8String_compare_tags(p.v) THEN Utf8String_decode_asn1(reader)
        ELSE IF ExplicitTag_compare_tags(p.v) THEN ExplicitTag_decode_asn1(reader)
        ELSE Err(reader, UnknownTag))

----------------------------------------------------------------------------
(* Encoding.                                                               *)

RECURSIVE Asn1Type_needed_buf_size(_)
RECURSIVE Asn1Type_encode(_, _)

\* A size that forgets the length octets.
OctetString_needed_buf_size_no_len(v) == 1 + Len(v.octets)

OctetString_needed_buf_size(v) ==
    LET data_len == Len(v.octets)
    IN  1 + len_size(data_len) + data_len

OctetString_encode(v, writer) ==
    Try(write_byte(writer, OctetString_TAG), LAMBDA t :
    Try(write_len(Len(v.octets), t.r), LAMBDA l :
        write_slice(l.r, v.octets)))

Utf8String_needed_buf_size(v) ==
    LET data_len == Len(v.octets)
    IN  1 + len_size(data_len) + data_len

Utf8String_encode(v, writer) ==
    Try(write_byte(writer, Utf8String_TAG), LAMBDA t :
    Try(write_len(Len(v.octets), t.r), LAMBDA l :
        write_slice(l.r, v.octets)))

\* self.inner.iter().map(|f| f.needed_buf_size()).sum()
RECURSIVE sum_needed(_)
sum_needed(inner) ==
    IF inner = <<>> THEN 0
    ELSE Asn1Type_needed_buf_size(Head(inner).asn1_type) + sum_needed(Tail(inner))

\* self.inner.iter().try_for_each(|f| f.encode(writer))
RECURSIVE encode_each(_, _)
encode_each(inner, writer) ==
    IF inner = <<>> THEN Ok(writer, NoNode)
    ELSE Try(Asn1Type_encode(Head(inner).asn1_type, writer), LAMBDA c :
             encode_each(Tail(inner), c.r))

ExplicitTag_needed_buf_size(v) ==
    LET data_len == sum_needed(v.inner)
    IN  1 + len_size(data_len) + data_len

ExplicitTag_encode(v, writer) ==
    Try(write_byte(writer, v.tag_byte), LAMBDA t :
    Try(write_len(sum_needed(v.inner), t.r), LAMBDA l :
        encode_each(v.inner, l.r)))

Asn1Type_needed_buf_size(v) ==
    IF v.kind = "octet" THEN OctetString_needed_buf_size(v)
    ELSE IF v.kind = "utf8" THEN Utf8String_needed_buf_size(v)
    ELSE ExplicitTag_needed_buf_size(v)

Asn1Type_encode(v, writer) ==
    IF v.kind = "octet" THEN OctetString_encode(v, writer)
    ELSE IF v.kind = "utf8" THEN Utf8String_encode(v, writer)
    ELSE ExplicitTag_encode(v, writer)

\* Asn1Encoder::encode_buff: encode into a writer over the given buffer.
encode_buff(v, size) == Asn1Type_encode(v, Writer_new(size))

----------------------------------------------------------------------------
(* The inputs.                                                             *)

\* Tag bytes (4, 12, 160), short lengths (0, 2, 4, 12), the long-form
\* introducer of one length octet (129), text (0, 2, 4, 12) and bytes that
\* are no UTF-8 on their own (129, 160).
Alphabet == {0, 2, 4, 12, 129, 160}

Seqs(k) == UNION {[1..m -> Alphabet] : m \in 0..k}

fill(b, k) == [i \in 1..k |-> b]

\* Inputs longer than MaxLen: deeper nesting, several children, a
\* two-byte character, a length field of two octets, and payloads long
\* enough for the long form.
ExtraInputs ==
    { <<4, 4, 4, 2, 12, 0>>,
      <<160, 4, 12, 0, 12, 0>>,
      <<160, 4, 12, 0, 4, 0>>,
      <<160, 4, 12, 2, 129, 129>>,
      <<4, 4, 12, 2, 129, 129>>,
      <<4, 4, 12, 2, 194, 129>>,
      <<4, 4, 12, 2, 0, 0>>,
      <<4, 6, 160, 4, 12, 0, 0, 0>>,
      <<160, 4, 4, 2, 12, 0>>,
      <<160, 6, 12, 0, 4, 2, 12, 0>>,
      <<160, 6, 4, 2, 12, 0, 12, 0>>,
      <<12, 2, 194, 129>>,
      <<4, 130, 0, 2, 12, 0>>,
      <<4, 129, 128>> \o fill(0, 128),
      <<12, 129, 128>> \o fill(12, 128),
      <<12, 130, 1, 0>> \o fill(4, 256),
      <<160, 129, 131, 4, 129, 128>> \o fill(0, 128) }

Inputs == Seqs(MaxLen) \cup ExtraInputs

NoResult == Err(Reader_new(<<>>), "none")

EmptyRaw == RawAsn1EntityData(<<>>, 0, <<0, 0>>, <<0, 0>>)

\* The values built for encoding: leaves of the lengths around the
\* short-form/long-form boundaries, and explicit tags over them.
EncLens == {0, 1, 127, 128, 255, 256}

EncLeaves ==
    {Asn1(EmptyRaw, OctetString(0, fill(0, k), <<>>)) : k \in EncLens}
    \cup {Asn1(EmptyRaw, Utf8String(0, fill(12, k))) : k \in EncLens}

Children(S) == UNION {[1..m -> S] : m \in 0..MaxChildren}

EncExplicit1 == {Asn1(EmptyRaw, ExplicitTag_new(0, c)) : c \in Children(EncLeaves)}

EncExplicit2 == {Asn1(EmptyRaw, ExplicitTag_new(1, <<e>>)) : e \in EncExplicit1}

EncExplicit3 ==
    {Asn1(EmptyRaw, ExplicitTag_new(31, <<e, l>>)) :
        e \in EncExplicit2, l \in {x \in EncLeaves : Len(x.asn1_type.octets) = 256}}

EncValues == EncLeaves \cup EncExplicit1 \cup EncExplicit2 \cup EncExplicit3

\* The lengths handed to the length codec.
BigLens == {65535, 65536, 65537, 16777215, 16777216, 16777217, 2147483647}

LenValues == (0..MaxSmallLen) \cup BigLens

----------------------------------------------------------------------------
(* Decoding a buffer, through the tree entry point and through the two     *)
(* entry points of OCTET STRING; re-encoding; decoding a proper prefix.    *)

StartReader(data) == set_next_id(Reader_new(data), start_id)

Init ==
    /\ pc = "init"
    /\ buf \in Inputs
    /\ start_id \in 0..MaxStartId
    /\ res = NoResult
    /\ oct_asn1 = NoResult
    /\ oct_value = NoResult
    /\ val = NoNode
    /\ enc = NoResult
    /\ cut = 0
    /\ res_cut = NoResult
    /\ n = 0
    /\ len_w = NoResult
    /\ len_r = NoResult

DecodeAsn1 ==
    /\ pc = "init"
    /\ res' = Asn1Type_decode_asn1(StartReader(buf))
    /\ pc' = "decoded"
    /\ UNCHANGED <<buf, start_id, oct_asn1, oct_value, val, enc, cut, res_cut, n, len_w, len_r>>

DecodeOctetString ==
    /\ pc = "decoded"
    /\ oct_asn1' = OctetString_decode_asn1(StartReader(buf))
    /\ oct_value' = OctetString_decode(StartReader(buf))
    /\ pc' = "octet"
    /\ UNCHANGED <<buf, start_id, res, val, enc, cut, res_cut, n, len_w, len_r>>

Encode ==
    /\ pc = "decoded"
    /\ res.ok
    /\ val' = res.v.asn1_type
    /\ enc' = encode_buff(res.v.asn1_type, Asn1Type_needed_buf_size(res.v.asn1_type))
    /\ pc' = "encoded"
    /\ UNCHANGED <<buf, start_id, res, oct_asn1, oct_value, cut, res_cut, n, len_w, len_r>>

\* The buffer is exactly one encoded node.
Whole == res.ok /\ empty(res.r)

DecodePrefix ==
    /\ pc = "decoded"
    /\ Whole
    /\ \E k \in 0..(Len(buf) - 1) :
          /\ cut' = k
          /\ res_cut' = Asn1Type_decode_asn1(StartReader(SubSeq(buf, 1, k)))
    /\ pc' = "prefix"
    /\ UNCHANGED <<buf, start_id, res, oct_asn1, oct_value, val, enc, n, len_w, len_r>>

Next == DecodeAsn1 \/ DecodeOctetString \/ Encode \/ DecodePrefix

Spec == Init /\ [][Next]_vars

----------------------------------------------------------------------------
(* Encoding a built value into a buffer of the needed size, and into one   *)
(* a byte short.                                                           *)

InitEnc ==
    /\ pc = "enc_init"
    /\ val \in {v.asn1_type : v \in EncValues}
    /\ buf = <<>>
    /\ start_id = 0
    /\ res = NoResult
    /\ oct_asn1 = NoResult
    /\ oct_value = NoResult
    /\ enc = NoResult
    /\ cut = 0
    /\ res_cut = NoResult
    /\ n = 0
    /\ len_w = NoResult
    /\ len_r = NoResult

EncodeValue ==
    /\ pc = "enc_init"
    /\ enc' = encode_buff(val, Asn1Type_needed_buf_size(val))
    /\ pc' = "encoded"
    /\ UNCHANGED <<buf, start_id, res, oct_asn1, oct_value, val, cut, res_cut, n, len_w, len_r>>

EncodeShort ==
    /\ pc = "enc_init"
    /\ enc' = encode_buff(val, Asn1Type_needed_buf_size(val) - 1)
    /\ pc' = "encoded_short"
    /\ UNCHANGED <<buf, start_id, res, oct_asn1, oct_value, val, cut, res_cut, n, len_w, len_r>>

NextEnc == EncodeValue \/ EncodeShort

SpecEnc == InitEnc /\ [][NextEnc]_vars

----------------------------------------------------------------------------
(* The length codec: write a length, read it back.                         *)

\* Room for the longest length field.
LenBufSize == 1 + USIZE_LEN

InitLen ==
    /\ pc = "len_init"
    /\ n \in LenValues
    /\ buf = <<>>
    /\ start_id = 0
    /\ res = NoResult
    /\ oct_asn1 = NoResult
    /\ oct_value = NoResult
    /\ val = NoNode
    /\ enc = NoResult
    /\ cut = 0
    /\ res_cut = NoResult
    /\ len_w = NoResult
    /\ len_r = NoResult

WriteLen ==
    /\ pc = "len_init"
    /\ len_w' = write_len(n, Writer_new(LenBufSize))
    /\ pc' = "len_written"
    /\ UNCHANGED <<buf, start_id, res, oct_asn1, oct_value, val, enc, cut, res_cut, n, len_r>>

\* The octets write_len wrote.
Written(w) == SubSeq(w.buf, 1, w.position)

ReadLen ==
    /\ pc = "len_written"
    /\ len_w.ok
    /\ len_r' = read_len(Reader_new(Written(len_w.r)))
    /\ pc' = "len_read"
    /\ UNCHANGED <<buf, start_id, res, oct_asn1, oct_value, val, enc, cut, res_cut, n, len_w>>

NextLen == WriteLen \/ ReadLen

SpecLen == InitLen /\ [][NextLen]_vars

----------------------------------------------------------------------------
(* Properties.                                                             *)

\* The nodes of a tree in decode order: a node completes, and takes its
\* id, after the nodes nested in it.
RECURSIVE Flat(_)
RECURSIVE FlatAll(_)
Flat(a) == FlatAll(a.asn1_type.inner) \o <<a>>

FlatAll(nodes) == IF nodes = <<>> THEN <<>> ELSE Flat(Head(nodes)) \o FlatAll(Tail(nodes))

Ids(a) == [i \in 1..Len(Flat(a)) |-> Flat(a)[i].asn1_type.id]

StrictlyIncreasing(ids) == \A i, j \in 1..Len(ids) : i < j => ids[i] < ids[j]

\* The payload bytes the encoder writes for a value, and their count.
PayloadLen(v) == IF v.kind = "explicit" THEN sum_needed(v.inner) ELSE Len(v.octets)

\* The length field of node a is the shortest one for its payload.
MinimalLength(a) ==
    a.raw_data.length[2] - a.raw_data.length[1]
        = len_size(a.raw_data.data[2] - a.raw_data.data[1])

(* C1 *)

RECURSIVE Reencoded(_)
RECURSIVE ReencodedAll(_)
Reencoded(a) ==
    (IF a.asn1_type.kind = "explicit" THEN ReencodedAll(a.asn1_type.inner) ELSE <<>>)
        \o <<a>>

ReencodedAll(nodes) ==
    IF nodes = <<>> THEN <<>> ELSE Reencoded(Head(nodes)) \o ReencodedAll(Tail(nodes))

AllMinimal(a) == \A i \in 1..Len(Reencoded(a)) : MinimalLength(Reencoded(a)[i])

C2_EncodeExact ==
    /\ pc = "encoded" =>
          /\ enc.ok
          /\ Len(enc.r.buf) = Asn1Type_needed_buf_size(val)
          /\ enc.r.position = Len(enc.r.buf)
          /\ \A i \in 1..Len(enc.r.buf) : enc.r.buf[i] # Unwritten
          /\ Len(enc.r.buf) = 1 + len_size(PayloadLen(val)) + PayloadLen(val)
    /\ pc = "encoded_short" => (~enc.ok /\ enc.err = BufferTooSmall)

C2_Witness ==
    /\ pc = "encoded"
    /\ val.kind = "explicit"
    /\ Len(val.inner) = 2
    /\ val.inner[1].asn1_type.kind = "explicit"
    /\ PayloadLen(val) >= 256
    /\ enc.ok

(* C3 *)

\* C3: the ids of the nodes of one decode pass from a fresh reader,
\* in decode order, are strictly increasing (hence distinct), nested
\* nodes of octet strings and children of explicit tags included.
C3_IdsIncrease ==
    (pc # "init" /\ start_id = 0 /\ res.ok) => StrictlyIncreasing(Ids(res.v))

C3_Witness ==
    /\ pc = "decoded" /\ start_id = 0 /\ res.ok
    /\ res.v.asn1_type.kind = "explicit"
    /\ Len(res.v.asn1_type.inner) = 2
    /\ \E i \in 1..2 : /\ res.v.asn1_type.inner[i].asn1_type.kind = "octet"
                       /\ res.v.asn1_type.inner[i].asn1_type.inner # <<>>
    /\ Len(Ids(res.v)) = 4

(* C4 *)

\* The recorded ranges of node a lie in the buffer b and point at a's bytes.
RangesIn(a, b) ==
    /\ 0 <= a.raw_data.tag
    /\ a.raw_data.tag < a.raw_data.length[1]
    /\ a.raw_data.length[1] < a.raw_data.length[2]
    /\ a.raw_data.length[2] = a.raw_data.data[1]
    /\ a.raw_data.data[1] <= a.raw_data.data[2]
    /\ a.raw_data.data[2] <= Len(b)
    /\ b[a.raw_data.tag + 1] = a.asn1_type.tag_byte

\* C4: every node decode_asn1 produces over a top-level buffer, nested
\* nodes included, records ranges that are positions of that buffer:
\* the payload range inside the raw range, the raw range inside the buffer.
C4_RangesContained ==
    (pc # "init" /\ res.ok) =>
        \A i \in 1..Len(Flat(res.v)) : RangesIn(Flat(res.v)[i], buf)

(* C5 *)

AfterLen == read_len(check_tag(StartReader(buf), OctetString_tags).r)

\* buf starts with an octet string whose length fits the buffer.
OctetFits ==
    /\ check_tag(StartReader(buf), OctetString_tags).ok
    /\ AfterLen.ok
    /\ AfterLen.r.position + AfterLen.v.len <= Len(buf)

PayloadOf == SubSeq(buf, AfterLen.r.position + 1, AfterLen.r.position + AfterLen.v.len)

\* The payload is exactly one encoded UTF8String.
PayloadIsUtf8 ==
    /\ Utf8String_decode(Reader_new(PayloadOf)).ok
    /\ empty(Utf8String_decode(Reader_new(PayloadOf)).r)

\* The payload does not decode as a tree.
PayloadIsNoTree == ~Asn1Type_decode_asn1(Reader_new(PayloadOf)).ok

BestEffort(r, v) ==
    /\ r.ok
    /\ v.octets = PayloadOf
    /\ r.r.position = AfterLen.r.position + AfterLen.v.len
    /\ PayloadIsNoTree => v.inner = <<>>
    /\ PayloadIsUtf8 =>
          /\ Len(v.inner) = 1
          /\ v.inner[1].asn1_type.kind = "utf8"
          /\ v.inner[1].asn1_type.octets
                = Utf8String_decode(Reader_new(PayloadOf)).v.octets

\* C6: an octet string with the right tag and a length that fits decodes
\* whatever its payload is, through both entry points: the octets are the
\* payload, the reader ends just past it, a payload that is no tree leaves
\* no nested node, a payload that is an encoded UTF8String is exposed.
C6_BestEffort ==
    (pc = "octet" /\ OctetFits) =>
        /\ BestEffort(oct_asn1, oct_asn1.v.asn1_type)
        /\ BestEffort(oct_value, oct_value.v)

C6_Witness ==
    /\ pc = "octet" /\ OctetFits /\ PayloadIsUtf8
    /\ Len(PayloadOf) > 2
    /\ oct_asn1.ok
    /\ oct_asn1.v.asn1_type.inner # <<>>

(* C7 *)

Pow256(k) == IF k = 0 THEN 1 ELSE IF k = 1 THEN 256 ELSE IF k = 2 THEN 65536 ELSE 16777216

\* The octets o are the length field of v: v itself below 128, otherwise
\* the count of the octets that follow and v in big-endian without a
\* leading zero.
IsLengthField(o, v) ==
    IF v < 128 THEN o = <<v>>
    ELSE /\ Len(o) >= 2 /\ Len(o) <= 5
         /\ o[1] = 128 + Len(o) - 1
         /\ o[2] # 0
         /\ \A i \in 2..Len(o) : o[i] >= 0 /\ o[i] < 256
         /\ v = (IF Len(o) >= 2 THEN o[Len(o)] ELSE 0)
              + (IF Len(o) >= 3 THEN o[Len(o) - 1] * Pow256(1) ELSE 0)
              + (IF Len(o) >= 4 THEN o[Len(o) - 2] * Pow256(2) ELSE 0)
              + (IF Len(o) >= 5 THEN o[Len(o) - 3] * Pow256(3) ELSE 0)

\* C7: write_len(n) writes len_size(n) octets, the length field of n, and
\* read_len reads n back from them.
C7_LengthInverse ==
    /\ pc \in {"len_written", "len_read"} =>
          /\ len_w.ok
          /\ len_w.r.position = len_size(n)
          /\ IsLengthField(Written(len_w.r), n)
    /\ pc = "len_read" =>
          /\ len_r.ok
          /\ len_r.v.len = n
          /\ len_r.v.range = <<0, len_size(n)>>
          /\ empty(len_r.r)

C7_Witness ==
    /\ pc = "len_read"
    /\ n >= 16777216
    /\ len_r.ok
    /\ len_size(n) = 5

(* C8 *)

\* The error of the first child that fails to decode from the reader, or
\* "" when the reader runs empty first.
RECURSIVE FirstFailure(_)
FirstFailure(reader) ==
    IF empty(reader) THEN ""
    ELSE IF Asn1_decode(reader).ok THEN FirstFailure(Asn1_decode(reader).r)
    ELSE Asn1_decode(reader).err

\* The reader after the tag and the length of an explicit tag in buf.
AfterLenX == read_len(check_tag(StartReader(buf), ExplicitTag_tags).r)

ExplicitFits ==
    /\ check_tag(StartReader(buf), ExplicitTag_tags).ok
    /\ AfterLenX.ok
    /\ AfterLenX.r.position + AfterLenX.v.len <= Len(buf)

PayloadOfX ==
    SubSeq(buf, AfterLenX.r.position + 1, AfterLenX.r.position + AfterLenX.v.len)

\* The children lie one after the other and cover the payload range.
Tiles(inner, from, to) ==
    /\ inner = <<>> => from = to
    /\ inner # <<>> =>
          /\ inner[1].raw_data.tag = from
          /\ inner[Len(inner)].raw_data.data[2] = to
          /\ \A i \in 1..(Len(inner) - 1) :
                inner[i + 1].raw_data.tag = inner[i].raw_data.data[2]

\* C8: an explicit tag decodes its children left to right until its
\* payload is used up and keeps them in input order; when a child fails,
\* the explicit tag fails with that child's error.
C8_ExplicitChildren ==
    (pc # "init" /\ ExplicitFits) =>
        LET first == FirstFailure(Reader_new(PayloadOfX))
        IN  /\ first # "" => (~res.ok /\ res.err = first)
            /\ first = "" =>
                  /\ res.ok
                  /\ res.v.asn1_type.kind = "explicit"
                  /\ Tiles(res.v.asn1_type.inner,
                           res.v.raw_data.data[1], res.v.raw_data.data[2])

C8_Witness ==
    /\ pc = "decoded" /\ ExplicitFits
    /\ res.ok
    /\ Len(res.v.asn1_type.inner) = 2
    /\ res.v.asn1_type.inner[1].asn1_type.kind = "utf8"
    /\ res.v.asn1_type.inner[2].asn1_type.kind = "octet"

(* C9 *)

\* The id counter of the child reader after the nested attempt on the
\* payload, started from the parent's counter.
AfterNested ==
    Asn1Type_decode_asn1(set_next_id(Reader_new(PayloadOf), start_id)).r.next_id

Threaded(r, v) ==
    /\ v.id = AfterNested
    /\ \A i \in 1..Len(FlatAll(v.inner)) :
          /\ start_id <= FlatAll(v.inner)[i].asn1_type.id
          /\ FlatAll(v.inner)[i].asn1_type.id < v.id
    /\ r.r.next_id > v.id

\* C9: the nested attempt counts on from the parent's counter, the octet
\* string takes the counter the attempt ends with as its id, failed or
\* not, so nested ids lie from the parent's starting counter up to, not
\* including, the octet string's id, and the parent's counter ends above it.
C9_CounterThreaded ==
    (pc = "octet" /\ OctetFits) =>
        /\ Threaded(oct_asn1, oct_asn1.v.asn1_type)
        /\ Threaded(oct_value, oct_value.v)

C9_Witness ==
    /\ pc = "octet" /\ OctetFits
    /\ start_id > 0
    /\ Len(FlatAll(oct_asn1.v.asn1_type.inner)) >= 2
    /\ oct_asn1.v.asn1_type.id = start_id + 2

(* C10 *)

\* C10: from the same reader state OctetString::decode and
\* OctetString::decode_asn1 fail alike or yield the same reader and the
\* same octet string, nested nodes and their recorded ranges included.
C10_EntryPointsAgree ==
    pc = "octet" =>
        \/ ~oct_asn1.ok /\ ~oct_value.ok /\ oct_asn1.err = oct_value.err
        \/ /\ oct_asn1.ok /\ oct_value.ok
           /\ oct_asn1.r.position = oct_value.r.position
           /\ oct_asn1.r.next_id = oct_value.r.next_id
           /\ oct_asn1.v.asn1_type = oct_value.v

====
